---------------------------- MODULE Spec2Model ----------------------------
(***************************************************************************)
(* The OTP retrieval engine of bytevault-otp-hub (server/otp-email.ts):    *)
(* the in-memory rate limiter, the get-otp request handler with its        *)
(* per-account failover loop over mailbox sessions, and the get-totp       *)
(* request handler.  Every await of a handler is one step of the model;    *)
(* the code between two awaits runs atomically (one JavaScript thread).    *)
(* The database, the mailbox provider, the credential vault and the        *)
(* outcome table are collaborators: each call returns one of the results   *)
(* the handler distinguishes, or throws.                                   *)
(***************************************************************************)
EXTENDS Integers, Sequences, FiniteSets, TLC

VARIABLES
    now,             \* Date.now(), in milliseconds
    rateLimitStore,  \* the Map of otp-email.ts:14, key -> entry (NoEntry: absent)
    req,             \* the requests in flight, one record per handler task
    last_used_at,    \* accounts.last_used_at, per account id
    wl,              \* the workload this run serves (drawn once)
    todo,            \* requests that may still arrive
    entryBorn,       \* history: per key, when its current window started
    admitted,        \* history: per key, admissions since entryBorn
    authenticator,   \* the options of otplib's shared authenticator (totp.ts:1)
    issued           \* history: the generateCode calls that returned a code

vars == <<now, rateLimitStore, req, last_used_at, wl, todo, entryBorn, admitted,
          authenticator, issued>>

---------------------------------------------------------------------------
(* Program constants *)

RATE_LIMIT == 10
RATE_WINDOW == 60 * 1000

(* Bounds of the model *)

MaxSub == 1          \* the clock reads 0, RATE_WINDOW, ..., RATE_WINDOW + MaxSub
Burst == 2           \* a burst is RATE_LIMIT + Burst requests on one key
MaxAccts == 2        \* mapping rows a product has
MaxMsgs == 2         \* message ids one search returns

\* parseInt(process.env.EMAIL_FETCH_LIMIT || '20'), otp-email.ts:198: the
\* deployment sets EMAIL_FETCH_LIMIT=1.
EMAIL_FETCH_LIMIT == 1

TimePoints == {0} \cup {RATE_WINDOW + s : s \in 0..MaxSub}

Slots == {1, 2}
Users == {"u1", "u2"}
Slugs == {"acme", "beta", "nope"}
Endpoints == {"otp", "totp"}
Keys == Users \X Slugs

Null == -1

---------------------------------------------------------------------------
(* The rate limiter, otp-email.ts:13-34 *)

NoEntry == [count |-> 0, resetTime |-> Null]

\* A plausible slip: the increment of line 32 is lost.
checkRateLimitNoIncrement(store, userId, productId, t) ==
    LET key == <<userId, productId>>
        userLimit == store[key]
    IN  IF userLimit = NoEntry \/ t > userLimit.resetTime
        THEN [allowed |-> TRUE,
              store |-> [store EXCEPT ![key] = [count |-> 1, resetTime |-> t + RATE_WINDOW]]]
        ELSE IF userLimit.count >= RATE_LIMIT
        THEN [allowed |-> FALSE, store |-> store]
        ELSE [allowed |-> TRUE, store |-> store]

\* A plausible slip: the threshold test of line 28 is off by one.
checkRateLimitOffByOne(store, userId, productId, t) ==
    LET key == <<userId, productId>>
        userLimit == store[key]
    IN  IF userLimit = NoEntry \/ t > userLimit.resetTime
        THEN [allowed |-> TRUE,
              store |-> [store EXCEPT ![key] = [count |-> 1, resetTime |-> t + RATE_WINDOW]]]
        ELSE IF userLimit.count > RATE_LIMIT
        THEN [allowed |-> FALSE, store |-> store]
        ELSE [allowed |-> TRUE, store |-> [store EXCEPT ![key].count = @ + 1]]

\* A plausible slip: a denied call is counted too.
checkRateLimitCountsDenied(store, userId, productId, t) ==
    LET key == <<userId, productId>>
        userLimit == store[key]
    IN  IF userLimit = NoEntry \/ t > userLimit.resetTime
        THEN [allowed |-> TRUE,
              store |-> [store EXCEPT ![key] = [count |-> 1, resetTime |-> t + RATE_WINDOW]]]
        ELSE [allowed |-> userLimit.count < RATE_LIMIT,
              store |-> [store EXCEPT ![key].count = @ + 1]]

\* checkRateLimit(userId, productId) at time t: the answer and the store it leaves.
checkRateLimit(store, userId, productId, t) ==
    LET key == <<userId, productId>>
        userLimit == store[key]
    IN  IF userLimit = NoEntry \/ t > userLimit.resetTime
        THEN [allowed |-> TRUE,
              store |-> [store EXCEPT ![key] = [count |-> 1, resetTime |-> t + RATE_WINDOW]]]
        ELSE IF userLimit.count >= RATE_LIMIT
        THEN [allowed |-> FALSE, store |-> store]
        ELSE [allowed |-> TRUE, store |-> [store EXCEPT ![key].count = @ + 1]]

---------------------------------------------------------------------------
(* The database rows the handlers read *)

\* products, by slug: acme is active, beta is inactive, nope does not exist.
Products ==
    [acme |-> [id |-> "p_acme", is_active |-> TRUE],
     beta |-> [id |-> "p_beta", is_active |-> FALSE]]

HasProduct(slug) == slug \in DOMAIN Products

\* product_accounts joined with accounts: the rows a product may be mapped to.
AcctIds == {1, 2, 3, 4}

Mapping ==
    [a \in AcctIds |->
        CASE a = 1 -> [id |-> 1, weight |-> 50,  is_active |-> TRUE,
                       sender_override |-> <<>>, fetch_from_filter |-> <<>>]
          [] a = 2 -> [id |-> 2, weight |-> 100, is_active |-> TRUE,
                       sender_override |-> <<"svc">>, fetch_from_filter |-> <<"old">>]
          [] a = 3 -> [id |-> 3, weight |-> 10,  is_active |-> TRUE,
                       sender_override |-> <<>>, fetch_from_filter |-> <<"svc">>]
          [] a = 4 -> [id |-> 4, weight |-> 100, is_active |-> FALSE,
                       sender_override |-> <<>>, fetch_from_filter |-> <<>>]]


\* The stored order of a product's mapping rows: any arrangement of up to
\* MaxAccts distinct rows.
StoredLists ==
    {l \in UNION {[1..n -> AcctIds] : n \in 0..MaxAccts} :
        \A i, j \in DOMAIN l : i # j => l[i] # l[j]}

RECURSIVE SelectActive(_)
SelectActive(l) ==
    IF l = <<>> THEN <<>>
    ELSE IF Mapping[Head(l)].is_active
         THEN <<Head(l)>> \o SelectActive(Tail(l))
         ELSE SelectActive(Tail(l))

\* Insertion of row a into a list ordered by descending weight, after its equals.
RECURSIVE InsertDesc(_, _)
InsertDesc(a, l) ==
    IF l = <<>> THEN <<a>>
    ELSE IF Mapping[a].weight > Mapping[Head(l)].weight
         THEN <<a>> \o l
         ELSE <<Head(l)>> \o InsertDesc(a, Tail(l))

RECURSIVE OrderByWeightDesc(_)
OrderByWeightDesc(l) ==
    IF l = <<>> THEN <<>>
    ELSE InsertDesc(Head(l), OrderByWeightDesc(Tail(l)))

\* A plausible slip: the order clause of line 174 is left out.
AccountsQueryUnordered(stored) == SelectActive(stored)

\* The accounts query of lines 153-182: active rows, by descending weight.
AccountsQuery(stored) == OrderByWeightDesc(SelectActive(stored))

---------------------------------------------------------------------------
(* Message text, otp-email.ts:342-368, 411-415 *)

\* A text is a sequence of tokens: a run of n separator characters (pad), a
\* run of n letters that holds no keyword (word), the keyword "code" (kw),
\* the word "PIN" (pin), or a run of digits d (num).  Two neighbouring tokens
\* are never both runs of digits.
Pad(n) == [k |-> "pad", n |-> n, d |-> <<>>]
Word(n) == [k |-> "word", n |-> n, d |-> <<>>]
Kw == [k |-> "kw", n |-> 4, d |-> <<>>]
Pin == [k |-> "pin", n |-> 3, d |-> <<>>]
Num(d) == [k |-> "num", n |-> Len(d), d |-> d]

Min(x, y) == IF x <= y THEN x ELSE y
Max(x, y) == IF x >= y THEN x ELSE y

\* String length.
RECURSIVE length(_)
length(text) == IF text = <<>> THEN 0 ELSE Head(text).n + length(Tail(text))

\* The first n characters of token h, and h without its first n characters.
CutRight(h, n) ==
    CASE h.k = "pad" -> Pad(n)
      [] h.k = "num" -> Num(SubSeq(h.d, 1, n))
      [] OTHER -> Word(n)

CutLeft(h, n) ==
    CASE h.k = "pad" -> Pad(h.n - n)
      [] h.k = "num" -> Num(SubSeq(h.d, n + 1, Len(h.d)))
      [] OTHER -> Word(h.n - n)

RECURSIVE Take(_, _)
Take(text, n) ==
    IF n <= 0 \/ text = <<>> THEN <<>>
    ELSE IF Head(text).n <= n
         THEN <<Head(text)>> \o Take(Tail(text), n - Head(text).n)
         ELSE <<CutRight(Head(text), n)>>

RECURSIVE Drop(_, _)
Drop(text, n) ==
    IF n <= 0 \/ text = <<>> THEN text
    ELSE IF Head(text).n <= n
         THEN Drop(Tail(text), n - Head(text).n)
         ELSE <<CutLeft(Head(text), n)>> \o Tail(text)

\* String.prototype.substring(start, end), for 0 <= start <= end.
substring(text, start, end) == Take(Drop(text, start), end - start)

\* a + b, for texts: separator runs that meet become one run.
Join(a, b) ==
    IF a = <<>> THEN b
    ELSE IF b = <<>> THEN a
    ELSE IF a[Len(a)].k = "pad" /\ Head(b).k = "pad"
         THEN SubSeq(a, 1, Len(a) - 1) \o <<Pad(a[Len(a)].n + Head(b).n)>> \o Tail(b)
         ELSE a \o b

\* The offset of token i in text.
Offset(text, i) == length(SubSeq(text, 1, i - 1))

\* String.prototype.indexOf: the offset of the first occurrence of the digit
\* string otp in text, starting the count at off; -1 when there is none.
RECURSIVE indexOfFrom(_, _, _)
indexOfFrom(text, otp, off) ==
    IF text = <<>> THEN -1
    ELSE LET h == Head(text)
             at == {j \in 1..(h.n - Len(otp) + 1) :
                       SubSeq(h.d, j, j + Len(otp) - 1) = otp}
         IN  IF h.k = "num" /\ at # {}
             THEN off + (CHOOSE j \in at : \A i \in at : j <= i) - 1
             ELSE indexOfFrom(Tail(text), otp, off + h.n)

indexOf(text, otp) == indexOfFrom(text, otp, 0)

---------------------------------------------------------------------------
(* Filter configuration and the confidence decision, otp-email.ts:54-107, 328-450 *)

\* senderWhitelist of getAdvancedFilterConfig: override and default, combined.
senderWhitelist(a) == Mapping[a].sender_override \o Mapping[a].fetch_from_filter

InList(x, l) == \E i \in DOMAIN l : l[i] = x

\* The messages a mailbox may hold (what simpleParser returns): a sender, a
\* subject, a text body and an HTML body.
Senders == {"svc", "old", "spam"}

Subjects == { <<>>, <<Word(4), Pad(1), Kw>> }

Bodies ==
    { \* "your code is 482913"
      <<Word(4), Pad(1), Kw, Pad(1), Word(2), Pad(1), Num(<<4, 8, 2, 9, 1, 3>>)>>,
      \* "739201"
      <<Num(<<7, 3, 9, 2, 0, 1>>)>>,
      \* "code 111111", "code  123456", "code 11111123"
      <<Kw, Pad(1), Num(<<1, 1, 1, 1, 1, 1>>)>>,
      <<Kw, Pad(2), Num(<<1, 2, 3, 4, 5, 6>>)>>,
      <<Kw, Pad(1), Num(<<1, 1, 1, 1, 1, 1, 2, 3>>)>>,
      \* a code that starts at character 10,055 of the concatenation
      <<Word(5), Pad(10044), Kw, Pad(1), Num(<<4, 8, 2, 9, 1, 3>>)>>,
      \* a code that starts at character 9,995 and ends after character 10,000
      <<Pad(9989), Kw, Pad(1), Num(<<4, 8, 2, 9, 1, 3>>)>>,
      \* "code 9482913 ... 482913" and "9482913 ... code 482913"
      <<Kw, Pad(1), Num(<<9, 4, 8, 2, 9, 1, 3>>), Pad(100), Num(<<4, 8, 2, 9, 1, 3>>)>>,
      <<Num(<<9, 4, 8, 2, 9, 1, 3>>), Pad(100), Kw, Pad(1), Num(<<4, 8, 2, 9, 1, 3>>)>>,
      \* "PIN 4829"
      <<Pin, Pad(1), Num(<<4, 8, 2, 9>>)>>,
      \* "555555 ... 482913"
      <<Num(<<5, 5, 5, 5, 5, 5>>), Pad(100), Num(<<4, 8, 2, 9, 1, 3>>)>>,
      \* "111111 PIN 4829"
      <<Num(<<1, 1, 1, 1, 1, 1>>), Pad(1), Pin, Pad(1), Num(<<4, 8, 2, 9>>)>>,
      \* no digits
      <<Word(5)>> }

Messages ==
    [from : Senders, subject : Subjects, text : Bodies, html : {<<>>}]

NoMessage == [from |-> "", subject |-> <<>>, text |-> <<>>, html |-> <<>>]

\* The messages the mailboxes hold when whole requests are followed: from
\* either sender, without a subject, with a code after a keyword, a bare
\* code, a trivial code, or no digits.
Inbox ==
    {m \in Messages :
        /\ m.from \in {"svc", "spam"}
        /\ m.subject = <<>>
        /\ m.text \in { <<Word(4), Pad(1), Kw, Pad(1), Word(2), Pad(1), Num(<<4, 8, 2, 9, 1, 3>>)>>,
                        <<Num(<<7, 3, 9, 2, 0, 1>>)>>,
                        <<Kw, Pad(1), Num(<<1, 1, 1, 1, 1, 1>>)>>,
                        <<Word(5)>> }}

\* Line 346: `${subject} ${text} ${html}`.
searchText(m) ==
    Join(Join(Join(Join(m.subject, <<Pad(1)>>), m.text), <<Pad(1)>>), m.html)

\* Lines 342-343: the subject holds one of subjectFilters.
isOtpRelated(m) == \E i \in DOMAIN m.subject : m.subject[i].k = "kw"

\* otpPatterns of lines 71-89: the default pattern \b\d{6}\b, then the
\* enhanced patterns for a numeric code, an alphanumeric code and a PIN.
otpPatterns == <<"default", "numeric", "alnum", "pin">>

\* The matches of \b\d{6}\b in text, in order, each with its offset.
MatchDefault(text) ==
    LET T(i) == /\ text[i].k = "num" /\ text[i].n = 6
                /\ (i = 1 \/ text[i - 1].k = "pad")
                /\ (i = Len(text) \/ text[i + 1].k = "pad")
        at == SelectSeq([i \in 1..Len(text) |-> i], T)
    IN  [j \in 1..Len(at) |-> [otp |-> text[at[j]].d, pos |-> Offset(text, at[j])]]

\* The matches of (?:\bword\b)[:\s-]*([0-9]{4,8}) in text, for the keyword
\* tokens of the given kind: the capture group is up to 8 leading digits.
MatchKeyword(text, kind) ==
    LET T(i) == /\ text[i].k = kind
                /\ (i = 1 \/ text[i - 1].k = "pad")
                /\ i + 2 <= Len(text)
                /\ text[i + 1].k = "pad"
                /\ text[i + 2].k = "num" /\ text[i + 2].n >= 4
        at == SelectSeq([i \in 1..Len(text) |-> i], T)
    IN  [j \in 1..Len(at) |->
            [otp |-> SubSeq(text[at[j] + 2].d, 1, Min(8, text[at[j] + 2].n)),
             pos |-> Offset(text, at[j] + 2)]]

\* Array.from(limitedText.matchAll(pattern)), with m[1] || m[0] of each match.
\* (On texts of digits, lower-case words and "PIN" the alphanumeric pattern
\* matches what the numeric one does.)
matchAll(text, pattern) ==
    CASE pattern = "default" -> MatchDefault(text)
      [] pattern = "pin" -> MatchKeyword(text, "pin")
      [] OTHER -> MatchKeyword(text, "kw")

NoCand == [otp |-> <<>>, pos |-> Null]

\* The pattern loop of lines 360-392: the first pattern with a match decides;
\* its first match is taken in a subject-relevant message, its last otherwise.
RECURSIVE foundOtp(_, _, _)
foundOtp(limitedText, related, patterns) ==
    IF patterns = <<>> THEN NoCand
    ELSE LET matches == matchAll(limitedText, Head(patterns))
         IN  IF Len(matches) > 0
             THEN IF related THEN matches[1] ELSE matches[Len(matches)]
             ELSE foundOtp(limitedText, related, Tail(patterns))

\* A plausible slip: the patterns run over the whole text.
ExtractUntruncated(m) == foundOtp(searchText(m), isOtpRelated(m), otpPatterns)

\* The candidate of message m: the patterns see the first 10000 characters
\* of searchText (line 365).
Extract(m) ==
    foundOtp(substring(searchText(m), 0, 10000), isOtpRelated(m), otpPatterns)

sequences ==
    { <<1, 2, 3, 4, 5, 6>>, <<6, 5, 4, 3, 2, 1>>, <<1, 2, 3, 1, 2, 3>>,
      <<0, 0, 0, 0, 0, 0>>, <<1, 1, 1, 1, 1, 1>>, <<2, 2, 2, 2, 2, 2>> }

\* A plausible slip: the triviality test is left out.
isTrivialOTPNever(otp) == FALSE

\* isTrivialOTP of lines 398-404: six equal digits in a row, or a listed sequence.
isTrivialOTP(otp) ==
    \/ \E i \in 1..(Len(otp) - 5) : \A j \in i..(i + 5) : otp[j] = otp[i]
    \/ otp \in sequences

\* Lines 328-339: the fetch-time sender re-check (the deny-list is empty).
PassesSenderFilter(m, a) ==
    Len(senderWhitelist(a)) > 0 => InList(m.from, senderWhitelist(a))

\* A plausible slip: passing the re-check earns no trust.
senderWhitelistedNever(m, a) == FALSE

\* Line 408.
senderWhitelisted(m, a) ==
    Len(senderWhitelist(a)) > 0 /\ InList(m.from, senderWhitelist(a))

\* Lines 411-415: the window of 60 characters around the first occurrence of
\* the candidate's string in searchText holds a context keyword.
hasContextNearMatch(text, otp) ==
    LET otpIndex == indexOf(text, otp)
        contextStart == Max(0, otpIndex - 60)
        contextEnd == Min(length(text), otpIndex + Len(otp) + 60)
        contextWindow == substring(text, contextStart, contextEnd)
    IN  \E i \in DOMAIN contextWindow : contextWindow[i].k = "kw"

\* Lines 394-420: the candidate of m is returned iff this holds.
isHighConfidence(m, a) ==
    LET c == Extract(m) IN
    /\ c # NoCand
    /\ Len(c.otp) >= 4 /\ Len(c.otp) <= 12
    /\ ~isTrivialOTP(c.otp)
    /\ \/ senderWhitelisted(m, a)
       \/ isOtpRelated(m)
       \/ hasContextNearMatch(searchText(m), c.otp)

Accepts(m, a) == PassesSenderFilter(m, a) /\ isHighConfidence(m, a)

---------------------------------------------------------------------------
(* Requests *)

NoResp == [status |-> 0, error |-> "none", account |-> 0, otp |-> <<>>]

\* The user_access row a handler went on with, and when it looked at it.
NoGrant == [found |-> FALSE, expires_at |-> Null, at |-> Null]

IdleReq ==
    [pc |-> "idle", ep |-> "otp", user |-> "u1", slug |-> "nope",
     accounts |-> <<>>, ai |-> 0, left |-> 0, lock |-> FALSE, open |-> {},
     fetched |-> 0,
     msg |-> NoMessage, cand |-> NoCand, pend |-> NoResp, resp |-> NoResp,
     log |-> <<>>, tried |-> <<>>, did |-> {},
     allowed |-> FALSE, admBefore |-> 0, seen |-> Null, epoch |-> Null,
     rival |-> FALSE, faultAi |-> 0, logThrew |-> FALSE, from |-> "idle",
     grant |-> NoGrant]

Entry(status, account) == [status |-> status, account |-> account]

\* res.status(status).json({error}) and return.
Respond(q, status, error) ==
    [q EXCEPT !.pc = "done", !.from = q.pc,
              !.resp = [status |-> status, error |-> error, account |-> 0,
                        otp |-> <<>>]]

\* A plausible slip: the request-level catch answers with another status.
OtpCatchNotFound(q) == Respond(q, 404, "internal_error")

\* A plausible slip: the request-level catch sends nothing.
OtpCatchSilent(q) == [q EXCEPT !.pc = "crashed"]

\* The request-level catch of get-otp, lines 485-488.
OtpCatch(q) == Respond(q, 500, "internal_error")

CurAcct(q) == q.accounts[q.ai]

\* A plausible slip: the per-account try of lines 203/469 is missing, so the
\* error reaches the request-level catch.
AccountErrorFatal(q) == OtpCatch(q)

\* A plausible slip: the catch of line 469 tries the same account again.
AccountErrorRetry(q) == [q EXCEPT !.pc = "connect"]

\* The catch of line 469: the error log of line 476 is awaited.
AccountError(q) == [q EXCEPT !.pc = "acct_err_log"]

\* The head of the per-account loop for account i (lines 202-230): past the
\* last account, the exhaustion log of line 482 is awaited; else the credential
\* is decrypted (decOk: whether decrypt returns) and connect() is awaited, or
\* the catch of line 469 awaits its log.
StartAccount(q, i, decOk) ==
    IF i > Len(q.accounts)
    THEN [q EXCEPT !.pc = "nf_log", !.ai = i, !.left = 0, !.lock = FALSE,
                   !.fetched = 0]
    ELSE IF decOk
    THEN [q EXCEPT !.pc = "connect", !.ai = i, !.left = 0, !.lock = FALSE,
                   !.fetched = 0,
                   !.tried = Append(@, q.accounts[i]),
                   !.did = @ \cup {"decrypt", "connect"}]
    ELSE AccountError([q EXCEPT !.ai = i, !.left = 0, !.lock = FALSE,
                                !.fetched = 0,
                                !.tried = Append(@, q.accounts[i]),
                                !.did = @ \cup {"decrypt"},
                                !.faultAi = i])

\* `continue` of the message loop (lines 302, 311, 333, 338, 447): the next
\* message is fetched, or the loop ends and lines 461-462 release and log out.
NextMessage(q) ==
    IF q.left > 1
    THEN [q EXCEPT !.pc = "fetch", !.left = @ - 1]
    ELSE [q EXCEPT !.pc = "logout_end", !.left = 0, !.lock = FALSE]

\* The catch of line 452 swallows the error (the message loop's locals are
\* gone); lines 461-462 follow.
LoopError(q) == [q EXCEPT !.pc = "logout_end", !.lock = FALSE, !.cand = NoCand]

\* A plausible slip: the catch of line 463 goes to its log without logging out.
ImapErrorNoLogout(q) == [q EXCEPT !.pc = "imap_err_log", !.lock = FALSE]

\* The catch of line 463: release the lock if held, await logout (line 465).
ImapError(q) == [q EXCEPT !.pc = "logout_catch", !.lock = FALSE]

Closed(q) == [q EXCEPT !.open = @ \ {CurAcct(q)}]



\* The id get-totp logs as account_id: `totp-${product.id}` (line 564).
TotpId == 99

\* get-totp logs an outcome and returns a response with the same code:
\* the log is awaited first (lines 503-504, 515-516, 520-521, 533-534, ...).
TotpReturn(q, status, error) ==
    [q EXCEPT !.pc = "t_ret_log",
              !.pend = [status |-> status, error |-> error, account |-> 0,
                        otp |-> <<>>]]

\* The request-level catch of get-totp, lines 610-615: it awaits a log.
TotpCatch(q) == [q EXCEPT !.pc = "t_catch_log"]

---------------------------------------------------------------------------
(* TotpService, totp.ts:10-105 *)

\* getDefaultConfig of lines 11-17, with the TOTP_DEFAULT_* variables unset.
getDefaultConfig == [digits |-> 6, period |-> 30, algorithm |-> "SHA1"]

\* The options otplib's authenticator starts with.
LibraryOptions == [digits |-> 6, step |-> 30, algorithm |-> "sha1"]

\* x || d, for a number (0: absent) and for a string ("": absent).
NumberOr(x, d) == IF x = 0 THEN d ELSE x
StringOr(x, d) == IF x = "" THEN d ELSE x

toLowerCase(x) ==
    CASE x = "SHA1" -> "sha1"
      [] x = "SHA256" -> "sha256"
      [] OTHER -> x

\* decrypt of crypto.ts, on the stored secrets.
decryptSecret(secret_enc) ==
    CASE secret_enc = "enc1" -> "JBSWY3DP"
      [] secret_enc = "enc2" -> "KRUGKIDR"

\* authenticator.generate(secret) at clock reading t (milliseconds): the code
\* is a function of the secret, the counter floor(t / 1000 / step), the digit
\* count and the algorithm of the options in force.
generate(options, secret, t) ==
    [secret |-> secret, counter |-> (t \div 1000) \div options.step,
     digits |-> options.digits, algorithm |-> options.algorithm]

\* The TOTP configurations a product's description may hold (lines 557-572):
\* one that leaves digits, period and algorithm to the defaults, one that
\* sets them, one with another secret.
TotpConfigs ==
    { [secret_enc |-> "enc1", digits |-> 0, period |-> 0,  algorithm |-> ""],
      [secret_enc |-> "enc1", digits |-> 8, period |-> 60, algorithm |-> "SHA256"],
      [secret_enc |-> "enc2", digits |-> 6, period |-> 30, algorithm |-> "SHA1"] }

\* A plausible slip: the code is generated with the shared options as the
\* last caller left them.
generateCodeStaleOptions(config, options, t) ==
    LET defaults == getDefaultConfig
        period == NumberOr(config.period, defaults.period)
    IN  [options |-> options,
         code |-> generate(options, decryptSecret(config.secret_enc), t),
         valid_for_seconds |-> period - ((t \div 1000) % period)]

\* generateCode of lines 36-66 with the shared options as they are and the
\* clock at t: the options it leaves and what it returns.
generateCode(config, options, t) ==
    LET defaults == getDefaultConfig
        secret == decryptSecret(config.secret_enc)
        opts == [digits |-> NumberOr(config.digits, defaults.digits),
                 step |-> NumberOr(config.period, defaults.period),
                 algorithm |-> toLowerCase(StringOr(config.algorithm, defaults.algorithm))]
        period == NumberOr(config.period, defaults.period)
    IN  [options |-> opts,
         code |-> generate(opts, secret, t),
         valid_for_seconds |-> period - ((t \div 1000) % period)]

\* The Base32 test of lines 74-80, on the secrets tried.
IsBase32(secret) == secret \in {"JBSWY3DP", "KRUGKIDR"}

\* validateSecret of lines 71-97: the options it leaves.
validateSecret(secret, options) ==
    LET defaults == getDefaultConfig
    IN  IF ~IsBase32(secret) THEN options
        ELSE [digits |-> defaults.digits, step |-> defaults.period,
              algorithm |-> toLowerCase(StringOr(defaults.algorithm, "sha1"))]

---------------------------------------------------------------------------
(* Initial state and the environment *)

\* The workloads: a burst of concurrent requests of one user for a slug no
\* product has, on either endpoint; or a single request of any user for any
\* slug on either endpoint.  (Requests share the rate limiter's store and
\* nothing else they read, so the failover loop is followed one request at a
\* time.)
Workloads == {"burst", "single"}

WlUsers == IF wl = "burst" THEN {"u1"} ELSE Users
WlSlugs == IF wl = "burst" THEN {"nope"} ELSE Slugs

Init ==
    /\ now = 0
    /\ rateLimitStore = [k \in Keys |-> NoEntry]
    /\ req = [r \in Slots |-> IdleReq]
    /\ last_used_at = [a \in AcctIds |-> Null]
    /\ wl \in Workloads
    /\ todo = IF wl = "burst" THEN RATE_LIMIT + Burst ELSE 1
    /\ entryBorn = [k \in Keys |-> Null]
    /\ admitted = [k \in Keys |-> 0]
    /\ authenticator = LibraryOptions
    /\ issued = {}

\* Time passes.
Tick ==
    /\ \E t \in TimePoints : t > now /\ now' = t
    /\ UNCHANGED <<rateLimitStore, req, last_used_at, wl, todo, entryBorn, admitted, authenticator, issued>>

\* A request passes requireUser (auth.ts:12-36) and waits for its handler.
Arrive(r) ==
    /\ req[r].pc \in {"idle", "done", "crashed"}
    /\ todo > 0
    /\ \E ep \in Endpoints, u \in WlUsers, s \in WlSlugs :
         req' = [req EXCEPT ![r] = [IdleReq EXCEPT !.pc = "arrived", !.ep = ep,
                                                   !.user = u, !.slug = s]]
    /\ todo' = todo - 1
    /\ UNCHANGED <<now, rateLimitStore, last_used_at, wl, entryBorn, admitted, authenticator, issued>>

\* Whether the window that started at entryBorn[k] still runs at time t.
InWindow(k, t) == entryBorn[k] # Null /\ t <= entryBorn[k] + RATE_WINDOW

\* A plausible slip: get-totp does not go through the limiter of get-otp.
StartTotpUnlimited(r) ==
    LET q == req[r]
        k == <<q.user, q.slug>>
        c == IF q.ep = "totp" THEN [allowed |-> TRUE, store |-> rateLimitStore]
             ELSE checkRateLimit(rateLimitStore, q.user, q.slug, now)
        q1 == [q EXCEPT !.allowed = c.allowed,
                        !.rival = \E o \in Slots \ {r} :
                                     /\ req[o].pc = "arrived"
                                     /\ <<req[o].user, req[o].slug>> = k,
                        !.admBefore = IF InWindow(k, now) THEN admitted[k] ELSE 0,
                        !.seen = IF InWindow(k, now) THEN rateLimitStore[k].count ELSE Null,
                        !.epoch = c.store[k].resetTime]
    IN  /\ q.pc = "arrived"
        /\ rateLimitStore' = c.store
        /\ entryBorn' = IF c.allowed /\ ~InWindow(k, now)
                        THEN [entryBorn EXCEPT ![k] = now] ELSE entryBorn
        /\ admitted' = IF ~c.allowed THEN admitted
                       ELSE IF InWindow(k, now)
                       THEN [admitted EXCEPT ![k] = @ + 1]
                       ELSE [admitted EXCEPT ![k] = 1]
        /\ req' = [req EXCEPT ![r] =
                     IF ~c.allowed
                     THEN IF q.ep = "otp"
                          THEN [q1 EXCEPT !.pc = "rl_log"]
                          ELSE TotpReturn(q1, 429, "rate_limited")
                     ELSE [q1 EXCEPT !.pc = IF q.ep = "otp" THEN "product" ELSE "t_product",
                                     !.did = @ \cup {"product"}]]
        /\ UNCHANGED <<now, last_used_at, wl, todo, authenticator, issued>>

\* The handler starts (lines 111-119, 493-505): checkRateLimit, then the first
\* await: the rate_limited log, or the product query.
Start(r) ==
    LET q == req[r]
        k == <<q.user, q.slug>>
        c == checkRateLimit(rateLimitStore, q.user, q.slug, now)
        q1 == [q EXCEPT !.allowed = c.allowed,
                        !.rival = \E o \in Slots \ {r} :
                                     /\ req[o].pc = "arrived"
                                     /\ <<req[o].user, req[o].slug>> = k,
                        !.admBefore = IF InWindow(k, now) THEN admitted[k] ELSE 0,
                        !.seen = IF InWindow(k, now) THEN rateLimitStore[k].count ELSE Null,
                        !.epoch = c.store[k].resetTime]
    IN  /\ q.pc = "arrived"
        /\ rateLimitStore' = c.store
        /\ entryBorn' = IF c.allowed /\ ~InWindow(k, now)
                        THEN [entryBorn EXCEPT ![k] = now] ELSE entryBorn
        /\ admitted' = IF ~c.allowed THEN admitted
                       ELSE IF InWindow(k, now)
                       THEN [admitted EXCEPT ![k] = @ + 1]
                       ELSE [admitted EXCEPT ![k] = 1]
        /\ req' = [req EXCEPT ![r] =
                     IF ~c.allowed
                     THEN IF q.ep = "otp"
                          THEN [q1 EXCEPT !.pc = "rl_log"]
                          ELSE TotpReturn(q1, 429, "rate_limited")
                     ELSE [q1 EXCEPT !.pc = IF q.ep = "otp" THEN "product" ELSE "t_product",
                                     !.did = @ \cup {"product"}]]
        /\ UNCHANGED <<now, last_used_at, wl, todo, authenticator, issued>>

---------------------------------------------------------------------------
(* get-otp, otp-email.ts:109-489 *)

\* Line 117 returns: the outcome is recorded and 429 sent; or it throws.
OtpRateLimitedLog(r) ==
    LET q == req[r] IN
    /\ q.pc = "rl_log"
    /\ \E res \in {"ok", "throw"} :
         req' = [req EXCEPT ![r] =
                   IF res = "ok"
                   THEN Respond([q EXCEPT !.log = Append(@, Entry("rate_limited", 0))],
                                429, "rate_limited")
                   ELSE OtpCatch([q EXCEPT !.logThrew = TRUE])]
    /\ UNCHANGED <<now, rateLimitStore, last_used_at, wl, todo, entryBorn, admitted, authenticator, issued>>

\* Lines 122-131: the product query (slug, is_active = true) returns.
OtpProduct(r) ==
    LET q == req[r] IN
    /\ q.pc = "product"
    /\ \E res \in {"row", "error", "throw"} :
         req' = [req EXCEPT ![r] =
                   IF res = "throw" THEN OtpCatch(q)
                   ELSE IF res = "row" /\ HasProduct(q.slug) /\ Products[q.slug].is_active
                   THEN [q EXCEPT !.pc = "access", !.did = @ \cup {"access"}]
                   ELSE Respond(q, 404, "product_not_found")]
    /\ UNCHANGED <<now, rateLimitStore, last_used_at, wl, todo, entryBorn, admitted, authenticator, issued>>

\* A plausible slip: the expiry of the row is not looked at.
ExpiredNever(expires_at, t) == FALSE

\* Lines 146 and 538: access.expires_at && new Date(access.expires_at) < new Date().
Expired(expires_at, t) == expires_at # Null /\ expires_at < t

\* Lines 134-148: the user_access query returns a row (expiring at exp, or
\* never), no row, or throws.
OtpAccess(r) ==
    LET q == req[r] IN
    /\ q.pc = "access"
    /\ \E res \in {"row", "none", "throw"}, exp \in {Null} \cup TimePoints :
         req' = [req EXCEPT ![r] =
                   IF res = "throw" THEN OtpCatch(q)
                   ELSE IF res = "none" THEN Respond(q, 403, "no_access")
                   ELSE IF Expired(exp, now) THEN Respond(q, 403, "access_expired")
                   ELSE [q EXCEPT !.pc = "accounts", !.did = @ \cup {"accounts"},
                                  !.grant = [found |-> TRUE, expires_at |-> exp,
                                             at |-> now]]]
    /\ UNCHANGED <<now, rateLimitStore, last_used_at, wl, todo, entryBorn, admitted, authenticator, issued>>

\* Lines 153-230: the accounts query returns; with no account the no_accounts
\* log is awaited, else the loop starts on the first account.
OtpAccounts(r) ==
    LET q == req[r] IN
    /\ q.pc = "accounts"
    /\ \E res \in {"rows", "error", "throw"}, stored \in StoredLists, decOk \in BOOLEAN :
         LET accounts == IF res = "rows" THEN AccountsQuery(stored) ELSE <<>> IN
         req' = [req EXCEPT ![r] =
                   IF res = "throw" THEN OtpCatch(q)
                   ELSE IF res = "error" \/ Len(accounts) = 0
                   THEN [q EXCEPT !.pc = "noacc_log"]
                   ELSE StartAccount([q EXCEPT !.accounts = accounts], 1, decOk)]
    /\ UNCHANGED <<now, rateLimitStore, last_used_at, wl, todo, entryBorn, admitted, authenticator, issued>>

\* Lines 194-195.
OtpNoAccountsLog(r) ==
    LET q == req[r] IN
    /\ q.pc = "noacc_log"
    /\ \E res \in {"ok", "throw"} :
         req' = [req EXCEPT ![r] =
                   IF res = "ok"
                   THEN Respond([q EXCEPT !.log = Append(@, Entry("no_accounts", 0))],
                                404, "no_accounts")
                   ELSE OtpCatch([q EXCEPT !.logThrew = TRUE])]
    /\ UNCHANGED <<now, rateLimitStore, last_used_at, wl, todo, entryBorn, admitted, authenticator, issued>>

\* Line 230: connect() returns (the lock is awaited) or throws (catch of 469).
OtpConnect(r) ==
    LET q == req[r] IN
    /\ q.pc = "connect"
    /\ \E res \in {"ok", "throw"} :
         req' = [req EXCEPT ![r] =
                   IF res = "ok"
                   THEN [q EXCEPT !.pc = "lock", !.open = @ \cup {CurAcct(q)}]
                   ELSE AccountError([q EXCEPT !.faultAi = q.ai])]
    /\ UNCHANGED <<now, rateLimitStore, last_used_at, wl, todo, entryBorn, admitted, authenticator, issued>>

\* Line 236: getMailboxLock returns (the search is awaited) or throws.
OtpLock(r) ==
    LET q == req[r] IN
    /\ q.pc = "lock"
    /\ \E res \in {"ok", "throw"} :
         req' = [req EXCEPT ![r] =
                   IF res = "ok"
                   THEN [q EXCEPT !.pc = "search", !.lock = TRUE]
                   ELSE ImapError([q EXCEPT !.faultAi = q.ai])]
    /\ UNCHANGED <<now, rateLimitStore, last_used_at, wl, todo, entryBorn, admitted, authenticator, issued>>

\* Lines 260-306: the search returns n message ids.  With a sender list the
\* per-sender searches that throw are skipped (line 268); without one a throw
\* reaches the catch of line 463.  No message: release, logout (lines 285-286).
OtpSearch(r) ==
    LET q == req[r] IN
    /\ q.pc = "search"
    /\ \E res \in {"ok", "throw"}, n \in 0..MaxMsgs :
         /\ res = "throw" => Len(senderWhitelist(CurAcct(q))) = 0
         /\ req' = [req EXCEPT ![r] =
                      IF res = "throw" THEN ImapError([q EXCEPT !.faultAi = q.ai])
                      ELSE IF n = 0 THEN [q EXCEPT !.pc = "logout_empty", !.lock = FALSE]
                      ELSE [q EXCEPT !.pc = "fetch", !.left = n]]
    /\ UNCHANGED <<now, rateLimitStore, last_used_at, wl, todo, entryBorn, admitted, authenticator, issued>>

\* Line 286 returns (continue: next account) or throws (catch of 463).
OtpLogoutEmpty(r) ==
    LET q == req[r] IN
    /\ q.pc = "logout_empty"
    /\ \E res \in {"ok", "throw"}, decOk \in BOOLEAN :
         req' = [req EXCEPT ![r] =
                   IF res = "ok" THEN StartAccount(Closed(q), q.ai + 1, decOk)
                   ELSE ImapError(Closed(q))]
    /\ UNCHANGED <<now, rateLimitStore, last_used_at, wl, todo, entryBorn, admitted, authenticator, issued>>

\* Lines 302-312: fetchOne is called for the next id of messagesToFetch, which
\* is every id the search returned (EMAIL_FETCH_LIMIT is only printed, line
\* 296); it returns a source, returns none, or throws.
OtpFetch(r) ==
    LET q == [req[r] EXCEPT !.fetched = @ + 1] IN
    /\ q.pc = "fetch"
    /\ \E res \in {"source", "nosource", "throw"} :
         req' = [req EXCEPT ![r] =
                   IF res = "source" THEN [q EXCEPT !.pc = "parse"]
                   ELSE IF res = "nosource" THEN NextMessage(q)
                   ELSE LoopError([q EXCEPT !.faultAi = q.ai])]
    /\ UNCHANGED <<now, rateLimitStore, last_used_at, wl, todo, entryBorn, admitted, authenticator, issued>>

\* The messages fetchOne may have returned: the one the run fixed, or any of
\* the mailbox.
Fetched(q) == IF q.msg = NoMessage THEN Inbox ELSE {q.msg}

\* Lines 315-450: simpleParser returns message m or throws; the filters, the
\* pattern loop and the confidence decision run; an accepted candidate awaits
\* the last_used_at update of line 424.
OtpParse(r) ==
    LET q == req[r] IN
    /\ q.pc = "parse"
    /\ \E res \in {"ok", "throw"}, m \in Fetched(q) :
         req' = [req EXCEPT ![r] =
                   IF res = "throw" THEN LoopError([q EXCEPT !.faultAi = q.ai])
                   ELSE IF Accepts(m, CurAcct(q))
                   THEN [q EXCEPT !.pc = "update", !.cand = Extract(m)]
                   ELSE NextMessage(q)]
    /\ UNCHANGED <<now, rateLimitStore, last_used_at, wl, todo, entryBorn, admitted, authenticator, issued>>

\* Lines 424-427: the update returns (its result is not looked at) or throws
\* into the catch of line 452.
OtpUpdate(r) ==
    LET q == req[r] IN
    /\ q.pc = "update"
    /\ \E res \in {"ok", "error", "throw"} :
         /\ req' = [req EXCEPT ![r] =
                      IF res = "throw" THEN LoopError(q)
                      ELSE [q EXCEPT !.pc = "succ_log"]]
         /\ last_used_at' = IF res = "ok"
                            THEN [last_used_at EXCEPT ![CurAcct(q)] = now]
                            ELSE last_used_at
    /\ UNCHANGED <<now, rateLimitStore, wl, todo, entryBorn, admitted, authenticator, issued>>

\* Lines 429-433: the success log returns (release, logout awaited) or throws
\* into the catch of line 452.
OtpSuccessLog(r) ==
    LET q == req[r] IN
    /\ q.pc = "succ_log"
    /\ \E res \in {"ok", "throw"} :
         req' = [req EXCEPT ![r] =
                   IF res = "ok"
                   THEN [q EXCEPT !.pc = "logout_succ", !.lock = FALSE,
                                  !.log = Append(@, Entry("success", CurAcct(q)))]
                   ELSE LoopError([q EXCEPT !.logThrew = TRUE])]
    /\ UNCHANGED <<now, rateLimitStore, last_used_at, wl, todo, entryBorn, admitted, authenticator, issued>>

\* Lines 433-443: logout returns and the code is sent; or it throws into the
\* catch of line 452.
OtpLogoutSuccess(r) ==
    LET q == req[r] IN
    /\ q.pc = "logout_succ"
    /\ \E res \in {"ok", "throw"} :
         req' = [req EXCEPT ![r] =
                   IF res = "ok"
                   THEN [Closed(q) EXCEPT !.pc = "done", !.from = q.pc,
                            !.resp = [status |-> 200, error |-> "none",
                                      account |-> CurAcct(q), otp |-> q.cand.otp]]
                   ELSE LoopError(Closed(q))]
    /\ UNCHANGED <<now, rateLimitStore, last_used_at, wl, todo, entryBorn, admitted, authenticator, issued>>

\* Line 462 returns (the loop goes to the next account) or throws (catch of 463).
OtpLogoutEnd(r) ==
    LET q == req[r] IN
    /\ q.pc = "logout_end"
    /\ \E res \in {"ok", "throw"}, decOk \in BOOLEAN :
         req' = [req EXCEPT ![r] =
                   IF res = "ok" THEN StartAccount(Closed(q), q.ai + 1, decOk)
                   ELSE ImapError(Closed(q))]
    /\ UNCHANGED <<now, rateLimitStore, last_used_at, wl, todo, entryBorn, admitted, authenticator, issued>>

\* Line 465 returns (the log of 466 is awaited) or throws (catch of 469).
OtpLogoutCatch(r) ==
    LET q == req[r] IN
    /\ q.pc = "logout_catch"
    /\ \E res \in {"ok", "throw"} :
         req' = [req EXCEPT ![r] =
                   IF res = "ok" THEN [Closed(q) EXCEPT !.pc = "imap_err_log"]
                   ELSE AccountError(Closed(q))]
    /\ UNCHANGED <<now, rateLimitStore, last_used_at, wl, todo, entryBorn, admitted, authenticator, issued>>

\* Lines 466-467: the error log returns (continue) or throws (catch of 469).
OtpImapErrorLog(r) ==
    LET q == req[r] IN
    /\ q.pc = "imap_err_log"
    /\ \E res \in {"ok", "throw"}, decOk \in BOOLEAN :
         req' = [req EXCEPT ![r] =
                   IF res = "ok"
                   THEN StartAccount([q EXCEPT !.log = Append(@, Entry("error", CurAcct(q)))],
                                     q.ai + 1, decOk)
                   ELSE AccountError([q EXCEPT !.logThrew = TRUE])]
    /\ UNCHANGED <<now, rateLimitStore, last_used_at, wl, todo, entryBorn, admitted, authenticator, issued>>

\* Lines 476-477: the error log returns (continue) or throws out of the loop
\* into the request-level catch.
OtpAccountErrorLog(r) ==
    LET q == req[r] IN
    /\ q.pc = "acct_err_log"
    /\ \E res \in {"ok", "throw"}, decOk \in BOOLEAN :
         req' = [req EXCEPT ![r] =
                   IF res = "ok"
                   THEN StartAccount([q EXCEPT !.log = Append(@, Entry("error", CurAcct(q)))],
                                     q.ai + 1, decOk)
                   ELSE OtpCatch([q EXCEPT !.logThrew = TRUE])]
    /\ UNCHANGED <<now, rateLimitStore, last_used_at, wl, todo, entryBorn, admitted, authenticator, issued>>

\* Lines 482-483.
OtpNotFoundLog(r) ==
    LET q == req[r] IN
    /\ q.pc = "nf_log"
    /\ \E res \in {"ok", "throw"} :
         req' = [req EXCEPT ![r] =
                   IF res = "ok"
                   THEN Respond([q EXCEPT !.log = Append(@, Entry("otp_not_found", 0))],
                                404, "otp_not_found")
                   ELSE OtpCatch([q EXCEPT !.logThrew = TRUE])]
    /\ UNCHANGED <<now, rateLimitStore, last_used_at, wl, todo, entryBorn, admitted, authenticator, issued>>


---------------------------------------------------------------------------
(* get-totp, otp-email.ts:492-616 *)

\* The log before an early return comes back: the response is sent; or it
\* throws into the catch of line 610.
TotpReturnLog(r) ==
    LET q == req[r] IN
    /\ q.pc = "t_ret_log"
    /\ \E res \in {"ok", "throw"} :
         req' = [req EXCEPT ![r] =
                   IF res = "ok"
                   THEN [q EXCEPT !.pc = "done", !.from = q.pc, !.resp = q.pend,
                                  !.log = Append(@, Entry(q.pend.error, 0))]
                   ELSE TotpCatch([q EXCEPT !.logThrew = TRUE])]
    /\ UNCHANGED <<now, rateLimitStore, last_used_at, wl, todo, entryBorn, admitted, authenticator, issued>>

\* Lines 508-522: the product query (by slug alone) returns.
TotpProduct(r) ==
    LET q == req[r] IN
    /\ q.pc = "t_product"
    /\ \E res \in {"row", "error", "throw"} :
         req' = [req EXCEPT ![r] =
                   IF res = "throw" THEN TotpCatch(q)
                   ELSE IF res = "error" \/ ~HasProduct(q.slug)
                   THEN TotpReturn(q, 404, "product_not_found")
                   ELSE IF ~Products[q.slug].is_active
                   THEN TotpReturn(q, 403, "product_inactive")
                   ELSE [q EXCEPT !.pc = "t_access", !.did = @ \cup {"access"}]]
    /\ UNCHANGED <<now, rateLimitStore, last_used_at, wl, todo, entryBorn, admitted, authenticator, issued>>

\* A plausible slip: after the access check get-totp goes on as get-otp does,
\* with the account query.
TotpAccessThenAccounts(r) ==
    LET q == req[r] IN
    /\ q.pc = "t_access"
    /\ req' = [req EXCEPT ![r] = [q EXCEPT !.pc = "accounts", !.did = @ \cup {"accounts"}]]
    /\ UNCHANGED <<now, rateLimitStore, last_used_at, wl, todo, entryBorn, admitted,
                   authenticator, issued>>

\* Lines 525-541: the user_access query returns.
TotpAccess(r) ==
    LET q == req[r] IN
    /\ q.pc = "t_access"
    /\ \E res \in {"row", "none", "throw"}, exp \in {Null} \cup TimePoints :
         req' = [req EXCEPT ![r] =
                   IF res = "throw" THEN TotpCatch(q)
                   ELSE IF res = "none" THEN TotpReturn(q, 403, "access_denied")
                   ELSE IF Expired(exp, now) THEN TotpReturn(q, 403, "access_expired")
                   ELSE [q EXCEPT !.pc = "t_config",
                                  !.grant = [found |-> TRUE, expires_at |-> exp,
                                             at |-> now]]]
    /\ UNCHANGED <<now, rateLimitStore, last_used_at, wl, todo, entryBorn, admitted, authenticator, issued>>

\* Lines 544-608: the description query returns; with a TOTP configuration in
\* it, generateCode runs: it returns a code (the success log is awaited), or
\* decrypt throws before the shared options are set, or generate throws after
\* (the totp_error log is awaited).
TotpConfig(r) ==
    LET q == req[r] IN
    /\ q.pc = "t_config"
    /\ \E res \in {"row", "error", "throw"}, configured \in BOOLEAN,
          config \in TotpConfigs, gen \in {"ok", "decrypt_throws", "generate_throws"} :
         LET g == generateCode(config, authenticator, now)
             ran == res = "row" /\ configured
         IN  /\ req' = [req EXCEPT ![r] =
                          IF res = "throw" THEN TotpCatch(q)
                          ELSE IF res = "error" THEN TotpReturn(q, 500, "product_fetch_failed")
                          ELSE IF ~configured THEN TotpReturn(q, 404, "totp_not_configured")
                          ELSE IF gen = "ok"
                          THEN [q EXCEPT !.pc = "t_succ_log", !.did = @ \cup {"totp"}]
                          ELSE [q EXCEPT !.pc = "t_gen_err_log", !.did = @ \cup {"totp"}]]
             /\ authenticator' = IF ran /\ gen # "decrypt_throws"
                                 THEN g.options ELSE authenticator
             /\ issued' = IF ran /\ gen = "ok"
                          THEN issued \cup {[config |-> config, t |-> now, code |-> g.code]}
                          ELSE issued
    /\ UNCHANGED <<now, rateLimitStore, last_used_at, wl, todo, entryBorn, admitted>>

\* Lines 593-602: the success log returns and the code is sent; or it throws
\* into the catch of line 604.
TotpSuccessLog(r) ==
    LET q == req[r] IN
    /\ q.pc = "t_succ_log"
    /\ \E res \in {"ok", "throw"} :
         req' = [req EXCEPT ![r] =
                   IF res = "ok"
                   THEN [q EXCEPT !.pc = "done", !.from = q.pc,
                                  !.resp = [status |-> 200, error |-> "none", account |-> TotpId,
                                            otp |-> <<>>],
                                  !.log = Append(@, Entry("totp_success", TotpId))]
                   ELSE [q EXCEPT !.pc = "t_gen_err_log", !.logThrew = TRUE]]
    /\ UNCHANGED <<now, rateLimitStore, last_used_at, wl, todo, entryBorn, admitted, authenticator, issued>>

\* Lines 605-607: the totp_error log returns and 500 is sent; or it throws
\* into the catch of line 610.
TotpGenErrorLog(r) ==
    LET q == req[r] IN
    /\ q.pc = "t_gen_err_log"
    /\ \E res \in {"ok", "throw"} :
         req' = [req EXCEPT ![r] =
                   IF res = "ok"
                   THEN Respond([q EXCEPT !.log = Append(@, Entry("totp_error", TotpId))],
                                500, "totp_generation_failed")
                   ELSE TotpCatch([q EXCEPT !.logThrew = TRUE])]
    /\ UNCHANGED <<now, rateLimitStore, last_used_at, wl, todo, entryBorn, admitted, authenticator, issued>>

\* Lines 612-614: the log of the catch returns and 500 is sent; if it throws,
\* the handler's promise rejects and no response is ever sent.
TotpCatchLog(r) ==
    LET q == req[r] IN
    /\ q.pc = "t_catch_log"
    /\ \E res \in {"ok", "throw"} :
         req' = [req EXCEPT ![r] =
                   IF res = "ok"
                   THEN Respond([q EXCEPT !.log = Append(@, Entry("error", 0))],
                                500, "internal_error")
                   ELSE [q EXCEPT !.pc = "crashed", !.logThrew = TRUE]]
    /\ UNCHANGED <<now, rateLimitStore, last_used_at, wl, todo, entryBorn, admitted, authenticator, issued>>

---------------------------------------------------------------------------
(* The specification *)

Next ==
    \/ Tick
    \/ \E r \in Slots :
         \/ Arrive(r)
         \/ Start(r)
         \/ OtpRateLimitedLog(r)
         \/ OtpProduct(r)
         \/ OtpAccess(r)
         \/ OtpAccounts(r)
         \/ OtpNoAccountsLog(r)
         \/ OtpConnect(r)
         \/ OtpLock(r)
         \/ OtpSearch(r)
         \/ OtpLogoutEmpty(r)
         \/ OtpFetch(r)
         \/ OtpParse(r)
         \/ OtpUpdate(r)
         \/ OtpSuccessLog(r)
         \/ OtpLogoutSuccess(r)
         \/ OtpLogoutEnd(r)
         \/ OtpLogoutCatch(r)
         \/ OtpImapErrorLog(r)
         \/ OtpAccountErrorLog(r)
         \/ OtpNotFoundLog(r)
         \/ TotpReturnLog(r)
         \/ TotpProduct(r)
         \/ TotpAccess(r)
         \/ TotpConfig(r)
         \/ TotpSuccessLog(r)
         \/ TotpGenErrorLog(r)
         \/ TotpCatchLog(r)

Spec == Init /\ [][Next]_vars

---------------------------------------------------------------------------
(* The scan of one message: a get-otp request that holds the lock of its
   only account and has fetched message msg, from the parse of line 315 to
   its response.  Every message of Messages is scanned on every active
   account. *)

ScanInit ==
    /\ now = 0
    /\ rateLimitStore = [k \in Keys |-> NoEntry]
    /\ last_used_at = [a \in AcctIds |-> Null]
    /\ wl = "scan"
    /\ todo = 0
    /\ entryBorn = [k \in Keys |-> Null]
    /\ admitted = [k \in Keys |-> 0]
    /\ authenticator = LibraryOptions
    /\ issued = {}
    /\ \E m \in Messages, a \in {x \in AcctIds : Mapping[x].is_active} :
         req = [r \in Slots |->
                  IF r = 1
                  THEN [IdleReq EXCEPT !.pc = "parse", !.slug = "acme",
                                       !.allowed = TRUE,
                                       !.grant = [found |-> TRUE, expires_at |-> Null,
                                                  at |-> 0],
                                       !.did = {"product", "access", "accounts",
                                                "decrypt", "connect"},
                                       !.accounts = <<a>>, !.ai = 1, !.tried = <<a>>,
                                       !.open = {a}, !.lock = TRUE,
                                       !.left = 1, !.fetched = 1, !.msg = m]
                  ELSE IdleReq]

ScanNext ==
    \E r \in Slots :
        \/ OtpParse(r)
        \/ OtpUpdate(r)
        \/ OtpSuccessLog(r)
        \/ OtpLogoutSuccess(r)
        \/ OtpLogoutEnd(r)
        \/ OtpLogoutCatch(r)
        \/ OtpImapErrorLog(r)
        \/ OtpAccountErrorLog(r)
        \/ OtpNotFoundLog(r)

ScanSpec == ScanInit /\ [][ScanNext]_vars

---------------------------------------------------------------------------
(* TotpService called over and over: generateCode for any configuration and
   validateSecret for any secret, in any order, while the clock advances. *)

TotpInit ==
    /\ now = 0
    /\ rateLimitStore = [k \in Keys |-> NoEntry]
    /\ req = [r \in Slots |-> IdleReq]
    /\ last_used_at = [a \in AcctIds |-> Null]
    /\ wl = "totp"
    /\ todo = 0
    /\ entryBorn = [k \in Keys |-> Null]
    /\ admitted = [k \in Keys |-> 0]
    /\ authenticator = LibraryOptions
    /\ issued = {}

\* A call of generateCode returns.
GenerateCode ==
    /\ \E config \in TotpConfigs :
         LET g == generateCode(config, authenticator, now)
         IN  /\ authenticator' = g.options
             /\ issued' = issued \cup {[config |-> config, t |-> now, code |-> g.code]}
    /\ UNCHANGED <<now, rateLimitStore, req, last_used_at, wl, todo, entryBorn, admitted>>

\* A call of validateSecret returns.
ValidateSecret ==
    /\ \E secret \in {"JBSWY3DP", "not base32"} :
         authenticator' = validateSecret(secret, authenticator)
    /\ UNCHANGED <<now, rateLimitStore, req, last_used_at, wl, todo, entryBorn, admitted,
                   issued>>

TotpNext == Tick \/ GenerateCode \/ ValidateSecret

TotpSpec == TotpInit /\ [][TotpNext]_vars

\* The rate limiter on its own: an empty store, and calls of checkRateLimit
\* for two users and two slugs at any time; req[1] records the last call.
LimiterInit ==
    /\ now = 0
    /\ rateLimitStore = [k \in Keys |-> NoEntry]
    /\ req = [r \in Slots |-> IdleReq]
    /\ last_used_at = [a \in AcctIds |-> Null]
    /\ wl = "limiter"
    /\ todo = 0
    /\ entryBorn = [k \in Keys |-> Null]
    /\ admitted = [k \in Keys |-> 0]
    /\ authenticator = LibraryOptions
    /\ issued = {}

\* A call of checkRateLimit returns.
CheckRateLimit ==
    /\ \E userId \in Users, productId \in {"acme"} :
         LET c == checkRateLimit(rateLimitStore, userId, productId, now)
         IN  /\ rateLimitStore' = c.store
             /\ req' = [req EXCEPT ![1] = [IdleReq EXCEPT !.user = userId, !.slug = productId,
                                                          !.allowed = c.allowed]]
    /\ UNCHANGED <<now, last_used_at, wl, todo, entryBorn, admitted, authenticator, issued>>

LimiterNext == Tick \/ CheckRateLimit

LimiterSpec == LimiterInit /\ [][LimiterNext]_vars

---------------------------------------------------------------------------
(* Properties *)

Checked(r) == req[r].pc \notin {"idle", "arrived"}
KeyOf(r) == <<req[r].user, req[r].slug>>
Statuses(l) == [i \in DOMAIN l |-> l[i].status]
CountOf(l, status) == Cardinality({i \in DOMAIN l : l[i].status = status})

C2_DeniedIsTerminal ==
    \A r \in Slots :
        (Checked(r) /\ ~req[r].allowed) =>
            /\ req[r].did = {}
            /\ req[r].pc # "crashed"
            /\ req[r].pc = "done" =>
                 /\ req[r].resp.status = 429
                 /\ req[r].resp.error = "rate_limited"
                 /\ Statuses(req[r].log) = <<"rate_limited">>

\* C3: the count a request reads in a running window is the number of
\* requests admitted in that window before it (no admission is lost between
\* a check and its increment); and when a request is checked against an
\* entry with one slot left (count = RATE_LIMIT - 1) while another request
\* for the same key waits for its own check, the first is admitted and every
\* request checked against the same entry afterwards, the waiting one
\* included, is denied: exactly one takes the slot.
C3_LastSlotOnce ==
    /\ \A r \in Slots :
         (Checked(r) /\ req[r].seen # Null) => req[r].seen = req[r].admBefore
    /\ \A r, o \in Slots :
         ( /\ r # o /\ Checked(r) /\ Checked(o)
           /\ KeyOf(r) = KeyOf(o)
           /\ req[r].epoch = req[o].epoch
           /\ req[r].rival /\ req[r].seen = RATE_LIMIT - 1
           /\ req[o].seen # Null /\ req[o].seen >= RATE_LIMIT - 1 )
         => (req[r].allowed /\ ~req[o].allowed)

\* Two requests raced for the last slot: one saw RATE_LIMIT - 1 and was
\* admitted, the other saw RATE_LIMIT in the same window and was denied.
C3_Witness ==
    \E r, o \in Slots :
        /\ r # o /\ Checked(r) /\ Checked(o)
        /\ KeyOf(r) = KeyOf(o) /\ req[r].epoch = req[o].epoch
        /\ req[r].rival /\ req[r].seen = RATE_LIMIT - 1 /\ req[r].allowed
        /\ req[o].seen = RATE_LIMIT /\ ~req[o].allowed

\* C4: the accounts a get-otp request attempts are attempted by descending
\* weight: an account attempted earlier never has the smaller weight.
C4_DescendingWeight ==
    \A r \in Slots :
        \A i, j \in DOMAIN req[r].tried :
            i < j => Mapping[req[r].tried[i]].weight >= Mapping[req[r].tried[j]].weight

\* Two accounts were attempted, the heavier (account 2, weight 100) first
\* although it has the larger id and may be stored second.
C4_Witness ==
    \E r \in Slots : req[r].tried = <<2, 1>>

\* For C5: the request is at a step that connects to, searches or fetches
\* from a mailbox.
AtMailbox(r) == req[r].pc \in {"connect", "lock", "search", "fetch", "parse"}

\* C5 (as claimed): a get-otp request logs at most one success outcome, and
\* once it has logged one it connects to, searches and fetches from no
\* further account.
C5_OneSuccess ==
    \A r \in Slots :
        /\ CountOf(req[r].log, "success") <= 1
        /\ CountOf(req[r].log, "success") >= 1 => ~AtMailbox(r)

\* C6: whenever a get-otp request has moved past an account (it is about to
\* connect to the next one, logs an account error, logs exhaustion) or has
\* ended, no session it connected is left without logout.
C6_SessionsClosed ==
    \A r \in Slots :
        req[r].pc \in {"connect", "acct_err_log", "imap_err_log", "nf_log",
                       "done", "crashed"}
            => req[r].open = {}

\* A session was connected, an exception reached the catch of line 463, and
\* the session was logged out before the account's error is logged.
C6_Witness ==
    \E r \in Slots :
        /\ req[r].pc = "imap_err_log" /\ req[r].faultAi = req[r].ai
        /\ req[r].open = {}

\* C7: a get-otp request in which an account failed (decrypt, connect, lock,
\* search, fetch or parse threw) and the logger did not, ends with a success
\* from a later account or with otp_not_found after all accounts were tried.
C7_AccountFailureRecovered ==
    \A r \in Slots :
        (req[r].pc = "done" /\ req[r].faultAi > 0 /\ ~req[r].logThrew) =>
            \/ /\ req[r].resp.status = 200
               /\ req[r].ai > req[r].faultAi
               /\ req[r].resp.account = req[r].accounts[req[r].ai]
            \/ /\ req[r].resp.status = 404 /\ req[r].resp.error = "otp_not_found"
               /\ req[r].tried = req[r].accounts

\* The first account failed and the second one delivered the code.
C7_Witness ==
    \E r \in Slots :
        /\ req[r].pc = "done" /\ req[r].faultAi = 1 /\ ~req[r].logThrew
        /\ req[r].resp.status = 200 /\ req[r].ai = 2

\* C8 (as claimed): a get-otp request that went through all of a non-empty
\* account list without accepting a candidate ends 404 otp_not_found, with
\* one otp_not_found outcome (account_id null) recorded.
C8_ExhaustionNotFound ==
    \A r \in Slots :
        (req[r].pc = "done" /\ req[r].from = "nf_log") =>
            /\ req[r].resp.status = 404 /\ req[r].resp.error = "otp_not_found"
            /\ CountOf(req[r].log, "otp_not_found") = 1
            /\ req[r].log[Len(req[r].log)] = Entry("otp_not_found", 0)

\* C9 (as claimed): a get-otp request whose account query gave no account
\* (no row, or an error) ends 404 no_accounts, having decrypted nothing and
\* connected to nothing.
C9_NoAccounts ==
    \A r \in Slots :
        (req[r].pc = "done" /\ req[r].from = "noacc_log") =>
            /\ req[r].resp.status = 404 /\ req[r].resp.error = "no_accounts"
            /\ req[r].did \cap {"decrypt", "connect"} = {}

\* For C10: the outcomes of a request that are not account-level errors.
TerminalOutcomes(l) ==
    Cardinality({i \in DOMAIN l : ~(l[i].status = "error" /\ l[i].account # 0)})

\* C10 (as claimed): a request that has sent its response has recorded
\* exactly one terminal outcome, on either endpoint.
C10_OneTerminalOutcome ==
    \A r \in Slots :
        req[r].pc = "done" => TerminalOutcomes(req[r].log) = 1

\* C11 (as claimed): a logger that throws does not change what the request
\* answers.  The handler answers; a request that awaited the rate_limited
\* log answers 429 rate_limited; no request ends at the log of an account
\* error, whose working logger lets the loop go on; and a get-totp request
\* that chose an error response sends that response.
C11_LoggerFailureHarmless ==
    \A r \in Slots :
        req[r].logThrew =>
            /\ req[r].pc # "crashed"
            /\ req[r].pc = "done" =>
                 /\ req[r].from = "rl_log" =>
                      (req[r].resp.status = 429 /\ req[r].resp.error = "rate_limited")
                 /\ req[r].from \notin {"acct_err_log", "imap_err_log"}
                 /\ req[r].pend # NoResp => req[r].resp = req[r].pend

\* C12 (as claimed): when a get-otp request has moved past an account (a
\* later account is the current one, or the list is exhausted), the log
\* holds an outcome for that account.
C12_AccountOutcomeLogged ==
    \A r \in Slots :
        \A i \in DOMAIN req[r].tried :
            i < req[r].ai =>
                \E j \in DOMAIN req[r].log : req[r].log[j].account = req[r].tried[i]

\* C13 (as claimed): for each account, a get-otp request makes at most
\* EMAIL_FETCH_LIMIT fetchOne calls.
C13_FetchCap ==
    \A r \in Slots : req[r].fetched <= EMAIL_FETCH_LIMIT

\* For C14: the trivial codes of the claim: six times the same digit, or a
\* member of the fixed blacklist.
TrivialCodes ==
    {[i \in 1..6 |-> d] : d \in 0..9}
        \cup { <<1, 2, 3, 4, 5, 6>>, <<6, 5, 4, 3, 2, 1>>, <<1, 2, 3, 1, 2, 3>> }

\* C14: no trivial code is the accepted candidate of a message or the otp of
\* a success response, whatever the sender, the allow-list of the account,
\* the subject and the text around the code are.
C14_TrivialNeverReturned ==
    \A r \in Slots :
        /\ req[r].cand.otp \notin TrivialCodes
        /\ req[r].resp.status = 200 => req[r].resp.otp \notin TrivialCodes

\* "code 111111" from an allow-listed sender under a subject with a keyword
\* was scanned on account 2 (allow-list svc) and was not accepted.
C14_Witness ==
    \E r \in Slots :
        /\ req[r].msg = [from |-> "svc", subject |-> <<Word(4), Pad(1), Kw>>,
                         text |-> <<Kw, Pad(1), Num(<<1, 1, 1, 1, 1, 1>>)>>,
                         html |-> <<>>]
        /\ req[r].accounts = <<2>>
        /\ req[r].pc = "logout_end" /\ req[r].faultAi = 0 /\ req[r].open = {2}

\* For C15: request r has just scored its message (simpleParser returned).
Scored(r) ==
    /\ req[r].pc = "parse" /\ req'[r].pc # "parse"
    /\ req'[r].faultAi = req[r].faultAi

\* For C15: a code that holds six equal digits in a row.
SixRepeated(otp) ==
    \E i \in 1..(Len(otp) - 5) : \A j \in i..(i + 5) : otp[j] = otp[i]

\* For C15: a keyword lies within 60 characters of the len characters at pos.
KeywordNear(text, pos, len) ==
    LET window == substring(text, Max(0, pos - 60), Min(length(text), pos + len + 60))
    IN  \E i \in DOMAIN window : window[i].k = "kw"

\* C15 (as claimed): when a message that passed the sender re-check is
\* scored and its candidate is non-trivial (no six repeated digits, not on
\* the blacklist) and of length 4 to 12, the
\* candidate is accepted iff the sender matches the allow-list, or the
\* subject holds a keyword, or a keyword lies within 60 characters of the
\* place the candidate was matched at.
C15_AcceptedIff ==
    [][\A r \in Slots :
         LET m == req[r].msg
             a == CurAcct(req[r])
             c == Extract(m)
         IN  ( /\ Scored(r) /\ m # NoMessage /\ PassesSenderFilter(m, a)
               /\ c # NoCand /\ c.otp \notin TrivialCodes /\ ~SixRepeated(c.otp)
               /\ Len(c.otp) >= 4 /\ Len(c.otp) <= 12 )
             => ( req'[r].pc = "update"
                    <=> \/ InList(m.from, senderWhitelist(a))
                        \/ \E i \in DOMAIN m.subject : m.subject[i].k = "kw"
                        \/ KeywordNear(searchText(m), c.pos, Len(c.otp)) )]_vars

\* C16: the accepted candidate of a message, and the otp of a success
\* response, is a string that occurs in the first 10,000 characters of
\* subject + text + html: a code whose only occurrence starts further on is
\* neither extracted nor returned.
C16_TruncatedSearch ==
    \A r \in Slots :
        LET text == searchText(req[r].msg) IN
        req[r].msg # NoMessage =>
            /\ req[r].cand # NoCand =>
                 (indexOf(text, req[r].cand.otp) >= 0
                    /\ indexOf(text, req[r].cand.otp) < 10000)
            /\ req[r].resp.status = 200 =>
                 (indexOf(text, req[r].resp.otp) >= 0
                    /\ indexOf(text, req[r].resp.otp) < 10000)

\* A message whose only code starts at character 10,055, after a keyword, was
\* scanned on account 1 (no allow-list) and no candidate was accepted.
C16_Witness ==
    \E r \in Slots :
        /\ req[r].msg.text = <<Word(5), Pad(10044), Kw, Pad(1), Num(<<4, 8, 2, 9, 1, 3>>)>>
        /\ indexOf(searchText(req[r].msg), <<4, 8, 2, 9, 1, 3>>) > 10000
        /\ req[r].accounts = <<1>>
        /\ req[r].pc = "logout_end" /\ req[r].faultAi = 0 /\ req[r].open = {1}

\* For C17: the settings a configuration stands for, and its time step at t.
Settings(config) ==
    [secret |-> decryptSecret(config.secret_enc),
     digits |-> IF config.digits = 0 THEN 6 ELSE config.digits,
     period |-> IF config.period = 0 THEN 30 ELSE config.period,
     algorithm |-> IF config.algorithm \in {"", "SHA1"} THEN "sha1" ELSE "sha256"]

StepOf(config, t) == (t \div 1000) \div Settings(config).period

\* C17: two generateCode calls with the same secret, digits, period and
\* algorithm whose clock readings fall in the same step returned the same
\* code, whatever calls came between them; and every call returned the code
\* of its own step's counter, for its own settings.
C17_TotpDeterministic ==
    /\ \A x, y \in issued :
         (Settings(x.config) = Settings(y.config) /\ StepOf(x.config, x.t) = StepOf(y.config, y.t))
             => x.code = y.code
    /\ \A x \in issued :
         /\ x.code.counter = StepOf(x.config, x.t)
         /\ x.code.secret = Settings(x.config).secret
         /\ x.code.digits = Settings(x.config).digits
         /\ x.code.algorithm = Settings(x.config).algorithm

\* The 8-digit SHA256 configuration was asked twice in one 60-second step, at
\* different clock readings, with a call for other settings in between (the
\* shared options are the defaults again), and once in the step before.
C17_Witness ==
    LET c == [secret_enc |-> "enc1", digits |-> 8, period |-> 60, algorithm |-> "SHA256"]
    IN  /\ \E x, y, z \in issued :
             /\ x.config = c /\ y.config = c /\ z.config = c
             /\ x.t # y.t /\ StepOf(c, x.t) = StepOf(c, y.t) /\ x.code = y.code
             /\ StepOf(c, z.t) + 1 = StepOf(c, x.t) /\ z.code # x.code
        /\ \E w \in issued : w.config # c /\ w.t = RATE_WINDOW
        /\ authenticator.digits = 6

\* C18: a get-totp request does nothing but the product lookup, the access
\* validation, the TOTP configuration loading with the code generation, and
\* outcome logging: it enumerates no accounts, opens no mailbox session,
\* fetches nothing, and none of its steps changes any last_used_at.
C18_TotpFrame ==
    /\ [](\A r \in Slots :
            (req[r].ep = "totp" /\ Checked(r)) =>
                /\ req[r].did \subseteq {"product", "access", "totp"}
                /\ req[r].accounts = <<>> /\ req[r].tried = <<>>
                /\ req[r].open = {} /\ ~req[r].lock /\ req[r].fetched = 0)
    /\ [][\A r \in Slots :
            (req[r].ep = "totp" /\ Checked(r) /\ req'[r] # req[r])
                => last_used_at' = last_used_at]_vars

\* A get-totp request generated a code and answered it.
C18_Witness ==
    \E r \in Slots :
        /\ req[r].ep = "totp" /\ req[r].pc = "done" /\ req[r].resp.status = 200
        /\ req[r].did = {"product", "access", "totp"}
        /\ issued # {}

\* C19 (as claimed): the error code of every error response is one of
\* rate_limited (429), no_access, access_expired (403), no_accounts,
\* otp_not_found (404), error (500).
C19_TerminalStateCodes ==
    \A r \in Slots :
        (req[r].pc = "done" /\ req[r].resp.status # 200) =>
            <<req[r].resp.error, req[r].resp.status>> \in
                { <<"rate_limited", 429>>, <<"no_access", 403>>, <<"access_expired", 403>>,
                  <<"no_accounts", 404>>, <<"otp_not_found", 404>>, <<"error", 500>> }

\* C19 (amended): the error code of every error response is one of a fixed
\* list, each with its one HTTP status: rate_limited 429; no_access,
\* access_denied, access_expired, product_inactive 403; product_not_found,
\* no_accounts, otp_not_found, totp_not_configured 404; internal_error,
\* product_fetch_failed, totp_generation_failed 500; get-otp answers none of
\* the codes of get-totp alone.
C19_ErrorCodes ==
    \A r \in Slots :
        (req[r].pc = "done" /\ req[r].resp.status # 200) =>
            /\ <<req[r].resp.error, req[r].resp.status>> \in
                 { <<"rate_limited", 429>>, <<"no_access", 403>>, <<"access_denied", 403>>,
                   <<"access_expired", 403>>, <<"product_inactive", 403>>,
                   <<"product_not_found", 404>>, <<"no_accounts", 404>>,
                   <<"otp_not_found", 404>>, <<"totp_not_configured", 404>>,
                   <<"internal_error", 500>>, <<"product_fetch_failed", 500>>,
                   <<"totp_generation_failed", 500>> }
            /\ req[r].ep = "otp" =>
                 req[r].resp.error \in {"rate_limited", "product_not_found", "no_access",
                                        "access_expired", "no_accounts", "otp_not_found",
                                        "internal_error"}

\* A get-otp request ended in its request-level catch with 500
\* internal_error, after an account query that threw.
C19_Witness ==
    \E r \in Slots :
        /\ req[r].ep = "otp" /\ req[r].pc = "done" /\ req[r].from = "accounts"
        /\ req[r].resp.status = 500 /\ req[r].resp.error = "internal_error"

\* C20: a get-otp request has at most one mailbox session that was connected
\* and not yet logged out, the one of its current account; when connect is
\* called for an account, none is open.
C20_OneSessionAtATime ==
    \A r \in Slots :
        /\ Cardinality(req[r].open) <= 1
        /\ req[r].open # {} =>
             (req[r].ai \in DOMAIN req[r].accounts /\ req[r].open = {CurAcct(req[r])})
        /\ req[r].pc = "connect" => req[r].open = {}

\* The session of the first account was connected and used (its
\* last_used_at is set), and the second account is now connected alone.
C20_Witness ==
    \E r \in Slots :
        /\ req[r].pc = "lock" /\ req[r].ai = 2
        /\ last_used_at[req[r].accounts[1]] # Null
        /\ req[r].open = {req[r].accounts[2]}

\* For C21: the phase of a get-otp request: rate limit, product lookup,
\* access check, enumeration, the account loop, exhaustion, response.
Phase(q) ==
    CASE q.pc \in {"idle", "arrived"} -> 0
      [] q.pc = "rl_log" -> 1
      [] q.pc = "product" -> 2
      [] q.pc = "access" -> 3
      [] q.pc \in {"accounts", "noacc_log"} -> 4
      [] q.pc = "nf_log" -> 6
      [] q.pc \in {"done", "crashed"} -> 7
      [] OTHER -> 5

\* C21: a get-otp request attempts each account at most once, in the order
\* of its list; no step of it goes back to an earlier phase or to an earlier
\* account, and connect is only ever called for an account after the one it
\* was at (so never again for an account whose connect, search or fetch
\* failed).
C21_MonotoneProgress ==
    /\ [](\A r \in Slots :
            /\ \A i, j \in DOMAIN req[r].tried : i # j => req[r].tried[i] # req[r].tried[j]
            /\ req[r].tried = SubSeq(req[r].accounts, 1, Len(req[r].tried)))
    /\ [][\A r \in Slots :
            (req[r].ep = "otp" /\ req[r].pc \notin {"idle", "done", "crashed"}
               /\ req'[r] # req[r])
            => /\ Phase(req'[r]) >= Phase(req[r])
               /\ req'[r].ai >= req[r].ai
               /\ req'[r].pc = "connect" => req'[r].ai > req[r].ai]_vars

\* The connect of the first account failed, and the request went on to the
\* second account and ended there or after it.
C21_Witness ==
    \E r \in Slots :
        /\ req[r].pc = "done" /\ req[r].faultAi = 1 /\ Len(req[r].tried) = 2
        /\ req[r].log # <<>> /\ req[r].log[1] = Entry("error", req[r].accounts[1])

\* C22: a denied checkRateLimit call leaves the whole store as it was; a call
\* for one key leaves every other key's entry as it was; a call for a key
\* without entry, or whose window has elapsed (now > resetTime), is admitted
\* and leaves {count: 1, resetTime: now + RATE_WINDOW}.
C22_RateLimitFrame ==
    [][(rateLimitStore' # rateLimitStore \/ req' # req)
       => LET k == <<req'[1].user, req'[1].slug>>
              e == rateLimitStore[k]
          IN  /\ \A o \in Keys \ {k} : rateLimitStore'[o] = rateLimitStore[o]
              /\ ~req'[1].allowed => rateLimitStore' = rateLimitStore
              /\ (e = NoEntry \/ now > e.resetTime)
                 => /\ req'[1].allowed
                    /\ rateLimitStore'[k] = [count |-> 1, resetTime |-> now + RATE_WINDOW]]_vars

\* A key's window elapsed and its entry was started again, the new window
\* filled up and a call for the key was denied, while another key's entry,
\* made in the first window, is still as it was.
C22_Witness ==
    \E o \in Keys :
        LET k == <<req[1].user, req[1].slug>>
        IN  /\ o # k /\ ~req[1].allowed /\ now > RATE_WINDOW
            /\ rateLimitStore[k] = [count |-> RATE_LIMIT, resetTime |-> now + RATE_WINDOW]
            /\ rateLimitStore[o] = [count |-> 3, resetTime |-> RATE_WINDOW]

\* For C23: the match that one pattern alone would choose in message m.
ChosenBy(m, pattern) ==
    foundOtp(substring(searchText(m), 0, 10000), isOtpRelated(m), <<pattern>>)

\* For C23: candidate c of message m is acceptable on account a.
Acceptable(m, a, c) ==
    /\ c # NoCand /\ Len(c.otp) >= 4 /\ Len(c.otp) <= 12
    /\ c.otp \notin TrivialCodes /\ ~SixRepeated(c.otp)
    /\ \/ InList(m.from, senderWhitelist(a))
       \/ \E i \in DOMAIN m.subject : m.subject[i].k = "kw"
       \/ KeywordNear(searchText(m), c.pos, Len(c.otp))

\* C23 (as claimed): a rejected candidate does not end the scan of its
\* message: when a message that passed the sender re-check is scored and
\* some pattern of the list chooses an acceptable candidate in it, a
\* candidate of the message is accepted, whatever the earlier patterns chose.
\* (Stated for messages in which every chosen candidate is the first
\* occurrence of its digit string, so that the context window is where the
\* claim has it.)
C23_LaterPatternApplied ==
    [][\A r \in Slots :
         LET m == req[r].msg
             a == CurAcct(req[r])
         IN  ( /\ Scored(r) /\ m # NoMessage /\ PassesSenderFilter(m, a)
               /\ \A i \in DOMAIN otpPatterns :
                     LET c == ChosenBy(m, otpPatterns[i])
                     IN  c # NoCand => indexOf(searchText(m), c.otp) = c.pos
               /\ \E i \in DOMAIN otpPatterns : Acceptable(m, a, ChosenBy(m, otpPatterns[i])) )
             => req'[r].pc = "update"]_vars

\* For C24: the allow-list the claim gives an account: the mapping's
\* sender_override when one is set, the account's fetch_from_filter otherwise.
EffectiveSenders(a) ==
    IF Mapping[a].sender_override # <<>> THEN Mapping[a].sender_override
    ELSE Mapping[a].fetch_from_filter

\* C24 (as claimed): a message whose sender is not on the effective
\* allow-list of the account (the override when set, the account default
\* only otherwise) is skipped at fetch time: no candidate of it is accepted.
C24_OverrideReplacesDefault ==
    [][\A r \in Slots :
         LET m == req[r].msg
             a == CurAcct(req[r])
         IN  ( /\ Scored(r) /\ m # NoMessage
               /\ EffectiveSenders(a) # <<>>
               /\ ~InList(m.from, EffectiveSenders(a)) )
             => req'[r].pc # "update"]_vars

\* C25 (as claimed): the context check looks at the 60 characters before and
\* after the place the chosen candidate was matched at: when neither the
\* sender nor the subject decides, a non-trivial candidate of length 4 to 12
\* is accepted iff a keyword lies in that window; a keyword next to another,
\* earlier occurrence of the same digits does not count.
C25_ContextAtMatch ==
    [][\A r \in Slots :
         LET m == req[r].msg
             a == CurAcct(req[r])
             c == Extract(m)
         IN  ( /\ Scored(r) /\ m # NoMessage /\ PassesSenderFilter(m, a)
               /\ ~senderWhitelisted(m, a) /\ ~isOtpRelated(m)
               /\ c # NoCand /\ ~isTrivialOTP(c.otp)
               /\ Len(c.otp) >= 4 /\ Len(c.otp) <= 12 )
             => ( req'[r].pc = "update"
                    <=> KeywordNear(searchText(m), c.pos, Len(c.otp)) )]_vars

\* C26 (as claimed): when the one get-otp request of a run has ended, the
\* only account whose last_used_at was written is the account named by its
\* success response: none if it ended in otp_not_found or an error.
C26_LastUsedOnlyOnSuccess ==
    \A r \in Slots :
        (wl = "single" /\ req[r].ep = "otp" /\ req[r].pc \in {"done", "crashed"})
        => \A a \in AcctIds :
             last_used_at[a] # Null
             => (req[r].resp.status = 200 /\ req[r].resp.account = a)

\* For C27: the request has decrypted a credential or a TOTP secret, opened a
\* mailbox session, or answered a code.
Served(r) ==
    \/ req[r].did \cap {"decrypt", "connect", "totp"} # {}
    \/ req[r].tried # <<>> \/ req[r].open # {}
    \/ req[r].resp.status = 200

\* C27: a request decrypts nothing, opens no mailbox session and answers no
\* code unless the rate limiter admitted it, an active product has its slug,
\* and the user_access row it went on with has no expires_at or one that is
\* not earlier than the time it was looked at; and the gates are passed in
\* this order: the product is only looked up for an admitted request, the
\* access row only for an active product.
C27_GatesBeforeService ==
    \A r \in Slots :
        LET q == req[r]
            ProductOk == HasProduct(q.slug) /\ Products[q.slug].is_active
            GrantOk == /\ q.grant.found
                       /\ (q.grant.expires_at = Null \/ q.grant.expires_at >= q.grant.at)
        IN  /\ Served(r) => (q.allowed /\ ProductOk /\ GrantOk)
            /\ q.grant # NoGrant => (q.allowed /\ ProductOk)
            /\ (Checked(r) /\ q.did # {}) => q.allowed

\* A request got through with a grant that expires at the very time of the
\* check, and answered a code.
C27_Witness ==
    \E r \in Slots :
        /\ req[r].pc = "done" /\ req[r].resp.status = 200
        /\ req[r].grant.found /\ req[r].grant.at > 0
        /\ req[r].grant.expires_at = req[r].grant.at

\* C28: get-otp and get-totp draw on one counter per (user, slug): a request
\* of either endpoint is admitted iff the key's entry is absent or elapsed or
\* holds fewer than RATE_LIMIT, and each admission of either endpoint adds
\* one to that entry; so the entry counts the admissions of both endpoints
\* in its window, and a get-totp request is admitted only if fewer than
\* RATE_LIMIT requests of both endpoints were admitted before it.
C28_SharedBudget ==
    /\ [](\A k \in Keys : InWindow(k, now) => rateLimitStore[k].count = admitted[k])
    /\ [](\A r \in Slots :
            (Checked(r) /\ req[r].allowed) => req[r].admBefore < RATE_LIMIT)
    /\ [][\A r \in Slots :
            (req[r].pc = "arrived" /\ req'[r].pc # "arrived")
            => LET e == rateLimitStore[KeyOf(r)]
                   fresh == e = NoEntry \/ now > e.resetTime
               IN  /\ req'[r].allowed <=> (fresh \/ e.count < RATE_LIMIT)
                   /\ req'[r].allowed
                      => rateLimitStore'[KeyOf(r)].count = IF fresh THEN 1 ELSE e.count + 1]_vars

\* The tenth admission of a window went to a get-otp request, and the
\* get-totp request that came next for the same key was denied.
C28_Witness ==
    \E r, o \in Slots :
        /\ KeyOf(r) = KeyOf(o) /\ Checked(r) /\ Checked(o)
        /\ req[r].epoch = req[o].epoch
        /\ req[o].ep = "otp" /\ req[o].allowed /\ req[o].admBefore = RATE_LIMIT - 1
        /\ req[r].ep = "totp" /\ ~req[r].allowed /\ req[r].seen = RATE_LIMIT
        /\ req[r].resp.error = "rate_limited"

\* For C29: the next step of a get-otp handler, whatever its collaborator
\* answers.
OtpStep(r) ==
    \/ Start(r) \/ OtpRateLimitedLog(r) \/ OtpProduct(r) \/ OtpAccess(r)
    \/ OtpAccounts(r) \/ OtpNoAccountsLog(r) \/ OtpConnect(r) \/ OtpLock(r)
    \/ OtpSearch(r) \/ OtpLogoutEmpty(r) \/ OtpFetch(r) \/ OtpParse(r)
    \/ OtpUpdate(r) \/ OtpSuccessLog(r) \/ OtpLogoutSuccess(r) \/ OtpLogoutEnd(r)
    \/ OtpLogoutCatch(r) \/ OtpImapErrorLog(r) \/ OtpAccountErrorLog(r)
    \/ OtpNotFoundLog(r)

\* For C29: a bound on the collaborator calls a get-otp request may still
\* await: the calls left on its account, and AcctSpan for each account after
\* it.
AcctSpan == 13 + 5 * MaxMsgs
LoopSpan == (MaxAccts + 1) * AcctSpan + 2
CallsLeft(q) ==
    LET later == (Len(q.accounts) - q.ai) * AcctSpan + 2
        msgs == 4 + 5 * q.left
    IN  CASE q.pc = "arrived" -> LoopSpan + 4
          [] q.pc = "product" -> LoopSpan + 3
          [] q.pc = "access" -> LoopSpan + 2
          [] q.pc = "accounts" -> LoopSpan + 1
          [] q.pc \in {"rl_log", "noacc_log", "nf_log"} -> 1
          [] q.pc = "connect" -> later + 12 + 5 * MaxMsgs
          [] q.pc = "lock" -> later + 11 + 5 * MaxMsgs
          [] q.pc = "search" -> later + 10 + 5 * MaxMsgs
          [] q.pc = "fetch" -> later + msgs + 4
          [] q.pc = "parse" -> later + msgs + 3
          [] q.pc = "update" -> later + msgs + 2
          [] q.pc = "succ_log" -> later + msgs + 1
          [] q.pc = "logout_succ" -> later + msgs
          [] q.pc \in {"logout_end", "logout_empty"} -> later + 3
          [] q.pc = "logout_catch" -> later + 2
          [] q.pc = "imap_err_log" -> later + 1
          [] q.pc = "acct_err_log" -> later
          [] OTHER -> 0

\* C29: a get-otp request that has not answered has a next step whatever its
\* collaborators do, every step of it lowers the number of calls it may
\* still await (so it ends once each call has returned or thrown), it ends
\* only by sending a response, and it sends one response only: the response
\* is written once, in the step that ends the request.
C29_ExactlyOneResponse ==
    /\ [](\A r \in Slots :
            req[r].ep = "otp" =>
                /\ req[r].pc # "crashed"
                /\ req[r].pc = "done" <=> req[r].resp # NoResp
                /\ req[r].pc \notin {"idle", "done"} => ENABLED OtpStep(r))
    /\ [][\A r \in Slots :
            (req[r].ep = "otp" /\ req[r].pc \notin {"idle", "done"} /\ req'[r] # req[r])
            => /\ CallsLeft(req'[r]) < CallsLeft(req[r])
               /\ CallsLeft(req'[r]) >= 0
               /\ req'[r].resp # req[r].resp => req'[r].pc = "done"]_vars

\* A get-otp request went through both of its accounts, the error log of the
\* second threw, and the request answered internal_error.
C29_Witness ==
    \E r \in Slots :
        /\ req[r].ep = "otp" /\ req[r].pc = "done" /\ req[r].logThrew
        /\ req[r].resp.status = 500 /\ Len(req[r].tried) = MaxAccts
        /\ req[r].from = "acct_err_log" /\ req[r].fetched > 0

\* C30: on an account with a non-empty allow-list, when a message that
\* passed the fetch-time sender re-check is scored, its candidate is accepted
\* iff there is one, of length 4 to 12 and not trivial: neither the subject
\* nor the text around the candidate decides.
C30_AllowListedTrusted ==
    [][\A r \in Slots :
         LET m == req[r].msg
             a == CurAcct(req[r])
             c == Extract(m)
         IN  ( /\ Scored(r) /\ m # NoMessage
               /\ Len(senderWhitelist(a)) > 0 /\ PassesSenderFilter(m, a) )
             => ( req'[r].pc = "update"
                    <=> ( /\ c # NoCand /\ Len(c.otp) >= 4 /\ Len(c.otp) <= 12
                          /\ c.otp \notin TrivialCodes /\ ~SixRepeated(c.otp) ) )]_vars

\* A bare code without subject or keyword, from a sender on the allow-list of
\* account 3, was returned.
C30_Witness ==
    \E r \in Slots :
        /\ req[r].pc = "done" /\ req[r].resp.status = 200
        /\ req[r].accounts = <<3>> /\ req[r].resp.account = 3
        /\ req[r].msg.from = "svc" /\ req[r].msg.subject = <<>>
        /\ req[r].msg.text = <<Num(<<7, 3, 9, 2, 0, 1>>)>>
        /\ req[r].resp.otp = <<7, 3, 9, 2, 0, 1>>

=============================================================================
